---- MODULE Spec2Model ----
(***************************************************************************)
(* lsrs: a directory-listing utility.  The model follows the library      *)
(* pipeline: get_entries (src/src/entry.rs) collects, filters and sorts    *)
(* the entries of the target path; print_entries (src/src/display.rs)      *)
(* renders them.  File names and every rendered string are sequences of    *)
(* one-character strings, so that a prefix, a separator or a padding is    *)
(* something a formula can look at.                                        *)
(***************************************************************************)
EXTENDS Integers, Sequences, FiniteSets, TLC

VARIABLES
    fs,       \* what the file system answers about the target path
    flags,    \* cli::Flags, parsed and immutable
    pc,       \* position of the program: "start", "listed", "printed", "failed", "exited"
    outcome,  \* what get_entries returned (or how it ended the process)
    index,    \* print_entries: position of the enumerate() loop
    stdout,   \* print_entries: everything written to standard output so far
    bytes,    \* bytes_to_human: its argument
    human,    \* bytes_to_human: which of the two was called, and what came of it
    mode,     \* parse_permissions: its argument, the st_mode of a file
    permissions  \* parse_permissions: None before the call, Some(its result) after

vars == <<fs, flags, pc, outcome, index, stdout, bytes, human, mode, permissions>>

----------------------------------------------------------------------------
(* Bounds of the model *)

\* Largest number of records a directory enumeration yields.
MaxEntries == 2
\* Largest number of entries handed to print_entries.
MaxPrinted == 3
\* File sizes range over 0..MaxSize; MaxSize stands at the top of the u64 range.
MaxSize == 1
\* Modification times and the clock are ticks in 0..MaxTime.
MaxTime == 3
\* The modes handed to parse_permissions are the values of ModeBits bits: the
\* nine permission bits, setuid, setgid, sticky and the four file-type bits.
ModeBits == 16

----------------------------------------------------------------------------
(* Data *)

\* An Option or an io::Result is a sequence: <<>> (None, Err) or <<v>>.
NoMeta == <<>>

\* An item of the directory iterator that is an Err.
ReadErr == [read |-> FALSE, name |-> <<>>, ftype |-> "Err", metadata |-> NoMeta]

\* An item of the directory iterator that is a DirEntry: its name, what its
\* file_type() answers ("Dir", "File" or "Err") and what its metadata() answers.
DirEntry(name, ftype, metadata) ==
    [read |-> TRUE, name |-> name, ftype |-> ftype, metadata |-> metadata]

\* enum FileType { Dir, File } with the derived Ord: Dir < File.
FileTypeOrd(t) == IF t = "Dir" THEN 0 ELSE 1

\* u64::MAX, scaled to the model's size range 0..MaxSize.
U64_MAX == MaxSize

\* SystemTime::now() as read by SystemTime::elapsed().  The code reads the
\* clock in every evaluation of the sort key; the model takes one reading for
\* the whole sort (a tick outlasts the sort), in the middle of the tick range,
\* so that modification times lie on both sides of it.
Now == MaxTime \div 2

\* A file name is a sequence of bytes.  The record at position i of an
\* enumeration is named by the i-th letter, with a leading dot when hidden,
\* so that the names of one directory are distinct.
Letters == <<"a", "b", "c", "d", "e", "f">>
NameAt(i, hidden) == IF hidden THEN <<".", Letters[i]>> ELSE <<Letters[i]>>

\* std::fs::Metadata: the fields the program reads.
Meta(len, mtime) ==
    [len |-> len, mtime |-> mtime, mode |-> 420, nlink |-> 1, uid |-> 0, gid |-> 0]

\* struct Entry { name, type, metadata }
Entry(name, type, metadata) == [name |-> name, type |-> type, metadata |-> metadata]

\* struct Flags of cli.rs (the path is part of fs).
Flags(a, s, h, r, S, l, t, m) ==
    [show_hidden |-> a, show_size |-> s, human |-> h, reverse_sort |-> r,
     sort_by_size |-> S, long_listing |-> l, sort_by_modified_time |-> t,
     stream_output |-> m]

----------------------------------------------------------------------------
(* get_entries, entry.rs *)

\* is_hidden_folder: the first byte of the file name is '.'.
is_hidden_folder(name) == name[1] = "."

\* std::cmp::Ordering as -1 (Less), 0 (Equal), 1 (Greater).
CmpInt(x, y) == IF x < y THEN -1 ELSE IF x = y THEN 0 ELSE 1

\* Ord of Option<T>: None < Some(_); an Option is <<>> or <<v>>.
CmpOption(x, y) ==
    IF x = <<>> THEN (IF y = <<>> THEN 0 ELSE -1)
    ELSE IF y = <<>> THEN 1
    ELSE CmpInt(x[1], y[1])

\* Ordering::then
Then(first, second) == IF first # 0 THEN first ELSE second

\* SystemTime::elapsed: Err when the time lies after the clock reading.
Elapsed(mtime) == IF mtime <= Now THEN <<Now - mtime>> ELSE <<>>

\* SortKey with the size taken as it is: smallest first.
SortKey_SizeAscending(entry, fl) ==
    << IF fl.sort_by_size THEN <<entry.metadata.len>> ELSE <<>>,
       IF fl.sort_by_modified_time THEN Elapsed(entry.metadata.mtime) ELSE <<>> >>

\* The closure `key` of the comparator: (Option<u64>, Option<Duration>).
SortKey(entry, fl) ==
    << IF fl.sort_by_size THEN <<U64_MAX - entry.metadata.len>> ELSE <<>>,
       IF fl.sort_by_modified_time THEN Elapsed(entry.metadata.mtime) ELSE <<>> >>

\* Ord of the key tuple: lexicographic.
CmpKey(ka, kb) == Then(CmpOption(ka[1], kb[1]), CmpOption(ka[2], kb[2]))

\* The comparator handed to sort_unstable_by.
Compare(a, b, fl) ==
    LET ordering == CmpKey(SortKey(a, fl), SortKey(b, fl))
        reversed == IF fl.reverse_sort THEN 0 - ordering ELSE ordering
    IN  Then(CmpInt(FileTypeOrd(a.type), FileTypeOrd(b.type)), reversed)

\* The closure `key` of main.rs: a sub-key is None when the entry has no
\* metadata or its flag is unset.
SortKeyMain(entry, fl) ==
    << IF entry.metadata # NoMeta /\ fl.sort_by_size
       THEN <<U64_MAX - entry.metadata[1].len>> ELSE <<>>,
       IF entry.metadata # NoMeta /\ fl.sort_by_modified_time
       THEN Elapsed(entry.metadata[1].mtime) ELSE <<>> >>

CompareMain(a, b, fl) ==
    LET ordering == CmpKey(SortKeyMain(a, fl), SortKeyMain(b, fl))
        reversed == IF fl.reverse_sort THEN 0 - ordering ELSE ordering
    IN  Then(CmpInt(FileTypeOrd(a.type), FileTypeOrd(b.type)), reversed)

\* The permutations of 1..n.
IndexPermutations(n) == {p \in [1..n -> 1..n] : \A i, j \in 1..n : p[i] = p[j] => i = j}

\* slice::sort_unstable_by: the result is a permutation of the input that the
\* comparator finds in order; which of the entries that compare Equal comes
\* first is not specified, so every such permutation is a possible result.
\* cmp[i][j] is what the comparator answers for the entries at i and j.
sort_unstable_by(entries, cmp) ==
    LET n == Len(entries)
    IN  { [i \in 1..n |-> entries[p[i]]] :
            p \in {q \in IndexPermutations(n) :
                     \A i, j \in 1..n : i < j => cmp[q[i]][q[j]] <= 0} }

\* The answers of a comparator on the entries, by position.
Answers(entries, fl, main) ==
    [i \in 1..Len(entries) |-> [j \in 1..Len(entries) |->
        IF main THEN CompareMain(entries[i], entries[j], fl)
        ELSE Compare(entries[i], entries[j], fl)]]

\* The three ways get_entries ends.
Ok(entries) == [status |-> "Ok", entries |-> entries, stderr |-> 0]
IoErr == [status |-> "Err", entries |-> <<>>, stderr |-> 0]
Exit1 == [status |-> "exit", entries |-> <<>>, stderr |-> 1]

\* Step with the hidden-entry filter applied whatever show_hidden says.
Step_HideAlways(rec, fl) ==
    IF ~rec.read THEN "drop"
    ELSE IF is_hidden_folder(rec.name) THEN "drop"
    ELSE IF rec.ftype = "Err" THEN "drop"
    ELSE IF rec.metadata = NoMeta THEN "exit"
    ELSE "keep"

\* What the filter_map closure does with one record of the enumeration:
\* "drop" (flatten or the closure discards it), "exit" (metadata failure ends
\* the process) or "keep".
Step(rec, fl) ==
    IF ~rec.read THEN "drop"
    ELSE IF ~fl.show_hidden /\ is_hidden_folder(rec.name) THEN "drop"
    ELSE IF rec.ftype = "Err" THEN "drop"
    ELSE IF rec.metadata = NoMeta THEN "exit"
    ELSE "keep"

\* The entries collected from the enumeration, in enumeration order.
RECURSIVE Collect(_, _)
Collect(dir, fl) ==
    IF dir = <<>> THEN <<>>
    ELSE LET rec == Head(dir)
         IN  IF Step(rec, fl) = "keep"
             THEN <<Entry(rec.name, rec.ftype, rec.metadata[1])>> \o Collect(Tail(dir), fl)
             ELSE Collect(Tail(dir), fl)

\* PathMissing without the test: a missing path is treated as any other.
PathMissing_Unchecked(f) == FALSE

\* `if !path.exists()` on a given path.
PathMissing(f) == f.path_given /\ ~f.exists

\* SingleFile with the hidden-entry filter applied to the path's own name.
SingleFile_Filtered(f, fl) ==
    IF ~fl.show_hidden /\ is_hidden_folder(f.file_name) THEN {Ok(<<>>)}
    ELSE IF f.path_meta # NoMeta
    THEN {Ok(<<Entry(f.file_name, "File", f.path_meta[1])>>)}
    ELSE {Exit1}

\* The `if !path.is_dir()` branch: the path itself as the only entry, a File;
\* a failing metadata(path) ends the process.
SingleFile(f, fl) ==
    IF f.path_meta # NoMeta
    THEN {Ok(<<Entry(f.file_name, "File", f.path_meta[1])>>)}
    ELSE {Exit1}

\* ShouldSort with the reverse flag asking for a sort of its own.
ShouldSort_OrReverse(fl) ==
    fl.sort_by_size \/ fl.sort_by_modified_time \/ fl.reverse_sort

\* The condition under which the entries are sorted at all.
ShouldSort(fl) == fl.sort_by_size \/ fl.sort_by_modified_time

\* get_entries: the set of its possible outcomes on the file system f.
get_entries(f, fl) ==
    IF PathMissing(f) THEN {Ok(<<>>)}
    ELSE IF f.path_given /\ ~f.is_dir THEN SingleFile(f, fl)
    ELSE IF ~f.read_dir_ok THEN {IoErr}
    ELSE IF \E i \in 1..Len(f.dir) : Step(f.dir[i], fl) = "exit" THEN {Exit1}
    ELSE IF ShouldSort(fl)
         THEN {Ok(es) : es \in sort_unstable_by(Collect(f.dir, fl),
                                                 Answers(Collect(f.dir, fl), fl, FALSE))}
         ELSE {Ok(Collect(f.dir, fl))}

----------------------------------------------------------------------------
(* get_entries, main.rs: the binary's own copy, whose Entry holds an
   Option<Metadata> *)

\* The filter_map closure of main.rs: an entry whose metadata is not read is
\* kept, with None for its metadata.
StepMain(rec, fl) ==
    IF ~rec.read THEN "drop"
    ELSE IF ~fl.show_hidden /\ is_hidden_folder(rec.name) THEN "drop"
    ELSE IF rec.ftype = "Err" THEN "drop"
    ELSE "keep"

RECURSIVE CollectMain(_, _)
CollectMain(dir, fl) ==
    IF dir = <<>> THEN <<>>
    ELSE LET rec == Head(dir)
         IN  IF StepMain(rec, fl) = "keep"
             THEN <<Entry(rec.name, rec.ftype, rec.metadata)>> \o CollectMain(Tail(dir), fl)
             ELSE CollectMain(Tail(dir), fl)

get_entries_main(f, fl) ==
    IF PathMissing(f) THEN {Ok(<<>>)}
    ELSE IF f.path_given /\ ~f.is_dir
         THEN {Ok(<<Entry(f.file_name, "File", f.path_meta)>>)}
    ELSE IF ~f.read_dir_ok THEN {IoErr}
    ELSE IF ShouldSort(fl)
         THEN {Ok(es) : es \in sort_unstable_by(CollectMain(f.dir, fl),
                                                 Answers(CollectMain(f.dir, fl), fl, TRUE))}
         ELSE {Ok(CollectMain(f.dir, fl))}

----------------------------------------------------------------------------
(* Numbers and their text *)

DecimalDigits == <<"0", "1", "2", "3", "4", "5", "6", "7", "8", "9">>

\* u64::to_string and the Display of an integral f64: decimal, no sign, no
\* leading zero, no decimal point.
RECURSIVE to_string(_)
to_string(n) ==
    IF n < 10 THEN <<DecimalDigits[n + 1]>>
    ELSE to_string(n \div 10) \o <<DecimalDigits[(n % 10) + 1]>>

\* A u64 is the sequence of its seven base-1024 digits, the least
\* significant first (the seventh is below 16): the byte counts that reach
\* the unit T, and its clamp, lie beyond the integers of the model checker.
LimbCount == 7
U64(n) ==
    [i \in 1..LimbCount |->
        IF i <= 3 THEN (n \div (1024 ^ (i - 1))) % 1024
        ELSE IF i = 4 THEN n \div (1024 ^ 3)
        ELSE 0]

\* The place of the most significant digit that is not zero (0 for zero).
TopLimb(l) ==
    IF \A i \in 1..LimbCount : l[i] = 0 THEN 0
    ELSE CHOOSE i \in 1..LimbCount :
            l[i] # 0 /\ \A j \in (i + 1)..LimbCount : l[j] = 0

\* u64::ilog(1024) of a byte count that is not zero.
ilog1024(l) == TopLimb(l) - 1

\* The number of bits of a base-1024 digit that is not zero.
BitLen(d) == CHOOSE b \in 1..10 : 2 ^ (b - 1) <= d /\ d < 2 ^ b

\* Adds a carry of 0 or 1 into the digits from place i on.
RECURSIVE AddCarry(_, _, _)
AddCarry(l, i, carry) ==
    IF carry = 0 \/ i > LimbCount THEN l
    ELSE IF l[i] + carry < 1024 \/ i = LimbCount
         THEN [l EXCEPT ![i] = l[i] + carry]
         ELSE AddCarry([l EXCEPT ![i] = 0], i + 1, 1)

\* `bytes as f64`: exact below 2^53; above, rounded to 53 significant bits,
\* to nearest, ties to even.  The result is again written in base 1024 (the
\* seventh digit is 16 for 2^64).
AsF64(l) ==
    LET top == TopLimb(l)
        e == IF top = 0 THEN 0 ELSE 10 * (top - 1) + BitLen(l[top]) - 1
    IN  IF e <= 52 THEN l
        ELSE LET q == 2 ^ (e - 52)
                 low == l[1] + 1024 * l[2]
                 r == low % q
                 keptOdd == (low \div q) % 2 = 1
                 up == r > q \div 2 \/ (r = q \div 2 /\ keptOdd)
                 rounded == IF up THEN low - r + q ELSE low - r
                 cleared == [l EXCEPT ![1] = rounded % 1024,
                                      ![2] = (rounded \div 1024) % 1024]
             IN  AddCarry(cleared, 3, rounded \div (1024 * 1024))

\* Ten times the fraction made of the digits 1..k (the digits below the
\* unit): the integer part of the product (carry), the digit of the
\* remainder just below the unit (top), and whether anything is left below
\* that (rest).
RECURSIVE TimesTen(_, _)
TimesTen(l, k) ==
    IF k = 0 THEN [carry |-> 0, top |-> 0, rest |-> FALSE]
    ELSE LET below == TimesTen(l, k - 1)
             p == 10 * l[k] + below.carry
         IN  [carry |-> p \div 1024, top |-> p % 1024,
              rest |-> below.rest \/ below.top # 0]

\* The integer part of value = bytes / 1024^index.
WholePart(l, unit) ==
    l[unit + 1]
    + (IF unit + 2 <= LimbCount THEN 1024 * l[unit + 2] ELSE 0)
    + (IF unit + 3 <= LimbCount THEN 1024 * 1024 * l[unit + 3] ELSE 0)

\* format!("{:.1}", value): the value in tenths, rounded to nearest, an
\* exact half to the even tenth.
Tenths(l, unit) ==
    LET m == TimesTen(l, unit)
        t == 10 * WholePart(l, unit) + m.carry
        up == m.top > 512 \/ (m.top = 512 /\ (m.rest \/ t % 2 = 1))
    IN  IF up THEN t + 1 ELSE t

OneDecimal(tenths) ==
    to_string(tenths \div 10) \o <<".">> \o <<DecimalDigits[(tenths % 10) + 1]>>

----------------------------------------------------------------------------
(* bytes_to_human, display.rs and entry.rs *)

UNITS == <<"B", "K", "M", "G", "T">>

Min(a, b) == IF a < b THEN a ELSE b

\* `(bytes.ilog(1024) as usize).min(UNITS.len() - 1)`
UnitIndex(l) == Min(ilog1024(l), Len(UNITS) - 1)

\* The text of a byte count that is not zero: the value in its unit, plain
\* for B and with one decimal place for the units above it.
Scaled(l) ==
    LET unit == UnitIndex(l)
        value == AsF64(l)
    IN  IF unit = 0
        THEN to_string(WholePart(value, 0)) \o <<UNITS[1]>>
        ELSE OneDecimal(Tenths(value, unit)) \o <<UNITS[unit + 1]>>

\* bytes_to_human of display.rs (and of main.rs, which is the same).
bytes_to_human(l) ==
    IF TopLimb(l) = 0 THEN <<"0", "B">> ELSE Scaled(l)

\* What a call of a function came to: a String, or a panic.
Returns(text) == [panic |-> FALSE, text |-> text]
Panics == [panic |-> TRUE, text |-> <<>>]

RECURSIVE Spaces(_)
Spaces(n) == IF n <= 0 THEN <<>> ELSE <<" ">> \o Spaces(n - 1)

\* pad_str of entry.rs: `6 - src.len()` in usize.  Past six bytes the
\* subtraction overflows: a panic in a build with overflow checks, and a
\* count near 2^64 handed to " ".repeat in a build without, which panics too
\* (capacity overflow).
max_str_len == 6
pad_str_entry(src) ==
    IF Len(src) > max_str_len THEN Panics
    ELSE Returns(Spaces(max_str_len - Len(src)) \o src)

\* bytes_to_human of entry.rs: the same text, handed to pad_str.
bytes_to_human_entry(l) ==
    IF TopLimb(l) = 0 THEN pad_str_entry(<<"0", "B">>) ELSE pad_str_entry(Scaled(l))

NotCalled == [fn |-> "none", result |-> Panics]

----------------------------------------------------------------------------
(* The accessors of Entry *)

S_IRUSR == 256
S_IWUSR == 128
S_IXUSR == 64
S_IRGRP == 32
S_IWGRP == 16
S_IXGRP == 8
S_IROTH == 4
S_IWOTH == 2
S_IXOTH == 1

\* `mode & bit` of a one-bit mask: 0 or not.
Masked(m, bit) == IF (m \div bit) % 2 = 1 THEN bit ELSE 0

\* triplet: the match on (mode & read, mode & write, mode & execute), its
\* arms tried in order.
triplet(m, read, write, execute) ==
    LET r == Masked(m, read)
        w == Masked(m, write)
        x == Masked(m, execute)
    IN  IF r = 0 /\ w = 0 /\ x = 0 THEN <<"-", "-", "-">>
        ELSE IF w = 0 /\ x = 0 THEN <<"r", "-", "-">>
        ELSE IF r = 0 /\ x = 0 THEN <<"-", "w", "-">>
        ELSE IF r = 0 /\ w = 0 THEN <<"-", "-", "x">>
        ELSE IF w = 0 THEN <<"r", "-", "x">>
        ELSE IF x = 0 THEN <<"r", "w", "-">>
        ELSE IF r = 0 THEN <<"-", "w", "x">>
        ELSE <<"r", "w", "x">>

\* parse_permissions with the group triplet read from the bits of the user.
parse_permissions_GroupFromUser(m) ==
    triplet(m, S_IRUSR, S_IWUSR, S_IXUSR)
    \o triplet(m, S_IRUSR, S_IWUSR, S_IXUSR)
    \o triplet(m, S_IROTH, S_IWOTH, S_IXOTH)

\* parse_permissions: [user, group, other].join("")
parse_permissions(m) ==
    triplet(m, S_IRUSR, S_IWUSR, S_IXUSR)
    \o triplet(m, S_IRGRP, S_IWGRP, S_IXGRP)
    \o triplet(m, S_IROTH, S_IWOTH, S_IXOTH)

get_permissions(entry) == parse_permissions(entry.metadata.mode)

get_links(entry) == to_string(entry.metadata.nlink)

\* get_user_by_uid and get_group_by_gid: the account database knows id 0.
get_user_by_uid(uid) == IF uid = 0 THEN <<<<"r", "o", "o", "t">>>> ELSE <<>>
get_group_by_gid(gid) == IF gid = 0 THEN <<<<"r", "o", "o", "t">>>> ELSE <<>>

\* get_file_owner_and_group: the names, or the decimal ids when the lookup
\* finds none.
get_file_owner_and_group(meta) ==
    LET owner == get_user_by_uid(meta.uid)
        group == get_group_by_gid(meta.gid)
    IN  (IF owner # <<>> THEN owner[1] ELSE to_string(meta.uid))
        \o <<" ">>
        \o (IF group # <<>> THEN group[1] ELSE to_string(meta.gid))

get_owners(entry) == get_file_owner_and_group(entry.metadata)

\* get_file_date: "%b %d %H:%M" of the local time; a tick of the model is a
\* minute of the first hour of the epoch.
get_file_date(mtime) ==
    <<"J", "a", "n", " ", "0", "1", " ", "0", "0", ":">>
    \o <<DecimalDigits[(mtime \div 10) + 1], DecimalDigits[(mtime % 10) + 1]>>

get_modified_time(entry) == get_file_date(entry.metadata.mtime)

\* Entry::get_name, Entry::get_size, Entry::is_folder: called by display.rs,
\* defined in no file of src/.
get_name(entry) == entry.name
get_size(entry) == U64(entry.metadata.len)
is_folder(entry) == entry.type = "Dir"

----------------------------------------------------------------------------
(* print_entries and print_entry, display.rs *)

\* pad_str of display.rs: format!("{:width$}", src), the text followed by
\* spaces up to the width, never cut.
pad_str(src, width) == src \o Spaces(width - Len(src))

Max(a, b) == IF a > b THEN a ELSE b

\* The text of the size column.
SizeText(entry, fl) ==
    IF fl.human THEN bytes_to_human(get_size(entry))
    ELSE to_string(entry.metadata.len)

\* Iterator::max of a sequence of widths, None for an empty one.
RECURSIVE MaxWidth(_)
MaxWidth(widths) ==
    IF widths = <<>> THEN <<>>
    ELSE LET rest == MaxWidth(Tail(widths))
         IN  IF rest = <<>> THEN <<Head(widths)>> ELSE <<Max(Head(widths), rest[1])>>

\* The widths that stand in for the columns of no entries.
DefaultFileLen == 6
DefaultSymLen == 2

\* calculate_format_sizes
calculate_format_sizes(entries, fl) ==
    LET file_len == MaxWidth([i \in 1..Len(entries) |-> Len(SizeText(entries[i], fl))])
        sym_len == MaxWidth([i \in 1..Len(entries) |-> Len(get_links(entries[i]))])
    IN  [file_len |-> IF file_len = <<>> THEN DefaultFileLen ELSE file_len[1],
         sym_len |-> IF sym_len = <<>> THEN DefaultSymLen ELSE sym_len[1]]

\* Path::extension of a file name: what follows the last '.', unless there
\* is none or the only one leads the name.
RECURSIVE LastDot(_, _)
LastDot(name, i) ==
    IF i = 0 THEN 0 ELSE IF name[i] = "." THEN i ELSE LastDot(name, i - 1)
Extension(name) ==
    LET dot == LastDot(name, Len(name))
    IN  IF dot <= 1 THEN <<>> ELSE SubSeq(name, dot + 1, Len(name))

\* mime_guess::from_path(..).first_or_octet_stream().type_(): the top-level
\* media type of the extension, application (octet-stream) when unknown.
MediaType(name) ==
    LET ext == Extension(name)
    IN  IF ext = <<"p", "n", "g">> THEN "image"
        ELSE IF ext = <<"t", "x", "t">> THEN "text"
        ELSE IF ext = <<"m", "p", "4">> THEN "video"
        ELSE IF ext = <<"m", "p", "3">> THEN "audio"
        ELSE "application"

\* The match on the media type; the result is the escape sequence that the
\* colored crate opens the colour with.
ColorOf(name) ==
    LET type == MediaType(name)
    IN  IF type = "image" THEN "ESC[34m"
        ELSE IF type = "text" THEN "ESC[33m"
        ELSE IF type = "application" THEN "ESC[32m"
        ELSE IF type = "video" THEN "ESC[36m"
        ELSE "ESC[35m"

BoldRed == "ESC[1;31m"

\* The Display of a ColoredString: the text between the opening escape
\* sequence and the reset, or the bare text when colours are off.  An escape
\* sequence is one element of the output.
Colored(text, open, colorize) ==
    IF colorize THEN <<open>> \o text \o <<"ESC[0m">> ELSE text

\* The long-listing columns of print_entry.
LongColumns(entry, fl, sizes) ==
    get_permissions(entry) \o <<" ">>
    \o pad_str(get_links(entry), sizes.sym_len) \o <<" ">>
    \o get_owners(entry) \o <<" ">>
    \o (IF fl.human
        THEN pad_str(bytes_to_human(get_size(entry)), sizes.file_len)
        ELSE pad_str(to_string(entry.metadata.len), sizes.file_len) \o <<" ">>)
    \o <<" ">>
    \o get_modified_time(entry) \o <<" ">>

\* Entry::print_entry: what it writes.
print_entry(entry, fl, sizes, colorize) ==
    IF fl.stream_output THEN get_name(entry)
    ELSE (IF fl.long_listing THEN LongColumns(entry, fl, sizes) ELSE <<>>)
         \o (IF is_folder(entry)
             THEN Colored(get_name(entry), BoldRed, colorize) \o <<"/">>
             ELSE (IF fl.show_size /\ ~fl.long_listing
                   THEN SizeText(entry, fl) \o <<"\t">>
                   ELSE <<>>)
                  \o Colored(get_name(entry), ColorOf(get_name(entry)), colorize))

\* Separator written before every entry, the first one included.
Separator_BeforeEvery(i, fl) ==
    IF fl.stream_output THEN <<",", " ">> ELSE <<>>

\* `if index != 0 && flags.stream_output { write!(stdout, ", ") }`
Separator(i, fl) ==
    IF i # 0 /\ fl.stream_output THEN <<",", " ">> ELSE <<>>

\* One turn of the loop of print_entries, as what it writes: the separator,
\* the entry, and the newline of println! outside stream mode.
Written(entries, i, fl, colorize) ==
    Separator(i, fl)
    \o print_entry(entries[i + 1], fl, calculate_format_sizes(entries, fl), colorize)
    \o (IF fl.stream_output THEN <<>> ELSE <<"\n">>)

----------------------------------------------------------------------------
(* The inputs *)

\* The environment's answers about the target path: flags.path is Some
\* (path_given), path.exists(), path.is_dir(), path.file_name(),
\* metadata(path), whether read_dir succeeds, and the items it yields; and
\* whether the colored crate colours what it is given (it does not when the
\* environment switches colours off).
Target(given, exists, is_dir, file_name, path_meta, read_dir_ok, dir) ==
    [path_given |-> given, exists |-> exists, is_dir |-> is_dir,
     file_name |-> file_name, path_meta |-> path_meta,
     read_dir_ok |-> read_dir_ok, dir |-> dir, colorize |-> TRUE]

\* Enumerations of at most max items drawn from a set of shapes; the
\* item at position i gets the i-th name, followed by the shape's extension.
Enumerations(Shapes, max) ==
    UNION { { [i \in 1..n |->
                 IF sh[i].read
                 THEN DirEntry(NameAt(i, sh[i].hidden) \o sh[i].ext, sh[i].ftype,
                               sh[i].metadata)
                 ELSE ReadErr] : sh \in [1..n -> Shapes] } : n \in 0..max }

\* Items whose reads may fail: an Err item, a failing file_type(), a failing
\* metadata(); hidden or not; a directory or a file.
CollectShapes ==
    [read : {TRUE}, hidden : BOOLEAN, ext : {<<>>}, ftype : {"Dir", "File", "Err"},
     metadata : {NoMeta, <<Meta(0, 0)>>}]
    \cup {[read |-> FALSE, hidden |-> FALSE, ext |-> <<>>, ftype |-> "Err",
           metadata |-> NoMeta]}

\* Items that are all read: directories and files of every size and
\* modification time.
SortShapes ==
    [read : {TRUE}, hidden : {FALSE}, ext : {<<>>}, ftype : {"Dir", "File"},
     metadata : {<<Meta(len, mtime)>> : len \in 0..MaxSize, mtime \in 0..MaxTime}]

\* The targets: no path (the current directory), a path that does not exist,
\* a path that is not a directory (its metadata read or not), a directory
\* (read or not).
Targets(Shapes) ==
    {Target(FALSE, FALSE, FALSE, <<>>, NoMeta, FALSE, <<>>)}
    \cup {Target(TRUE, FALSE, FALSE, <<"x">>, NoMeta, FALSE, <<>>)}
    \cup {Target(TRUE, TRUE, FALSE, name, meta, FALSE, <<>>) :
            name \in {<<"x">>, <<".", "x">>},
            meta \in {NoMeta, <<Meta(0, 0)>>, <<Meta(MaxSize, MaxTime)>>}}
    \cup {Target(TRUE, TRUE, TRUE, <<"x">>, NoMeta, FALSE, <<>>)}
    \cup {Target(given, given, given, <<"x">>, NoMeta, TRUE, dir) :
            given \in BOOLEAN, dir \in Enumerations(Shapes, MaxEntries)}

\* The flags that get_entries reads; the rendering flags are unset.
ListFlags ==
    {Flags(a, FALSE, FALSE, r, S, FALSE, t, FALSE) : a, r, S, t \in BOOLEAN}

----------------------------------------------------------------------------
(* The program *)

Start(TargetSet, FlagSet) ==
    /\ fs \in TargetSet
    /\ flags \in FlagSet
    /\ pc = "start"
    /\ outcome = Ok(<<>>)
    /\ index = 0
    /\ stdout = <<>>
    /\ bytes = U64(0)
    /\ human = NotCalled
    /\ mode = 0
    /\ permissions = <<>>

Init == Start(Targets(CollectShapes), ListFlags)

\* main: get_entries(flags.path, &flags)
GetEntries ==
    /\ pc = "start"
    /\ \E o \in get_entries(fs, flags) :
          /\ outcome' = o
          /\ pc' = CASE o.status = "Ok" -> "listed"
                     [] o.status = "Err" -> "failed"
                     [] OTHER -> "exited"
    /\ UNCHANGED <<fs, flags, index, stdout, bytes, human, mode, permissions>>

\* print_entries: one turn of its loop over the entries.
PrintEntry ==
    /\ pc = "listed"
    /\ index < Len(outcome.entries)
    /\ stdout' = stdout \o Written(outcome.entries, index, flags, fs.colorize)
    /\ index' = index + 1
    /\ UNCHANGED <<fs, flags, pc, outcome, bytes, human, mode, permissions>>

\* print_entries: the loop is over, Ok(()) is returned.
PrintReturn ==
    /\ pc = "listed"
    /\ index = Len(outcome.entries)
    /\ pc' = "printed"
    /\ UNCHANGED <<fs, flags, outcome, index, stdout, bytes, human, mode, permissions>>

\* main of main.rs: its own get_entries(flags.path, &flags)
GetEntriesMain ==
    /\ pc = "start"
    /\ \E o \in get_entries_main(fs, flags) :
          /\ outcome' = o
          /\ pc' = IF o.status = "Ok" THEN "listed" ELSE "failed"
    /\ UNCHANGED <<fs, flags, index, stdout, bytes, human, mode, permissions>>

Next == GetEntries

Spec == Init /\ [][Next]_vars

\* Entries to render: files and directories, with and without an extension,
\* empty and not; a directory has more links than a file.
PrintShapes ==
    {[read |-> TRUE, hidden |-> FALSE, ext |-> ext, ftype |-> ftype,
      metadata |-> <<[Meta(len, 0) EXCEPT !.nlink = IF ftype = "Dir" THEN 12 ELSE 1]>>] :
        ext \in {<<>>, <<".", "t", "x", "t">>}, ftype \in {"Dir", "File"},
        len \in {0, 1536}}

\* The flags that print_entries reads; the others are unset.
PrintFlags ==
    {Flags(FALSE, s, h, FALSE, FALSE, l, FALSE, m) : s, h, l, m \in BOOLEAN}

\* The program after get_entries has returned the entries of the current
\* directory, in enumeration order.
InitPrint ==
    /\ \E dir \in Enumerations(PrintShapes, MaxPrinted), colorize \in BOOLEAN :
          fs = [Target(FALSE, FALSE, FALSE, <<>>, NoMeta, TRUE, dir)
                    EXCEPT !.colorize = colorize]
    /\ flags \in PrintFlags
    /\ pc = "listed"
    /\ outcome \in get_entries(fs, flags)
    /\ index = 0
    /\ stdout = <<>>
    /\ bytes = U64(0)
    /\ human = NotCalled
    /\ mode = 0
    /\ permissions = <<>>

NextPrint == PrintEntry \/ PrintReturn

SpecPrint == InitPrint /\ [][NextPrint]_vars

\* The binary of main.rs on the targets of Spec.
NextMain == GetEntriesMain
SpecMain == Init /\ [][NextMain]_vars

InitSort == Start(Targets(SortShapes), ListFlags)
SpecSort == InitSort /\ [][Next]_vars

----------------------------------------------------------------------------
(* Vocabulary of the properties *)

\* get_entries has returned a list.
Listed == pc = "listed"
\* get_entries has ended, one way or another.
Returned == pc # "start"
Entries == outcome.entries

\* The target was enumerated: no path or a directory, and read_dir succeeded.
DirListing == (~fs.path_given \/ (fs.exists /\ fs.is_dir)) /\ fs.read_dir_ok

\* The name of item i of the enumeration is the name of a returned entry.
InList(i) == \E k \in 1..Len(Entries) : Entries[k].name = fs.dir[i].name

\* Item i of the enumeration was read with its file type.
TypeRead(i) == fs.dir[i].read /\ fs.dir[i].ftype # "Err"
\* Item i of the enumeration was read with its file type and its metadata.
FullyRead(i) == TypeRead(i) /\ fs.dir[i].metadata # NoMeta
\* Item i passes the hidden-entry filter.
Shown(i) == flags.show_hidden \/ fs.dir[i].name[1] # "."

SameKindPairs ==
    {p \in (1..Len(Entries)) \X (1..Len(Entries)) :
        p[1] < p[2] /\ Entries[p[1]].type = Entries[p[2]].type}

----------------------------------------------------------------------------
(* C1: for every enumeration and every combination of sort-by-size,
   sort-by-modified-time and reverse, the neither-sort-flag combination
   included, every Directory of the returned list comes before every File. *)
C1_DirsBeforeFiles ==
    Listed =>
        \A i, j \in 1..Len(Entries) :
            (Entries[i].type = "File" /\ Entries[j].type = "Dir") => j < i

\* What the code does keep: with a sort flag set, directories come first.
C1_DirsBeforeFilesWhenSorting ==
    (Listed /\ (flags.sort_by_size \/ flags.sort_by_modified_time)) =>
        \A i, j \in 1..Len(Entries) :
            (Entries[i].type = "File" /\ Entries[j].type = "Dir") => j < i

(* C2: while a directory is listed, a failed read of one item, of its file
   type or of its metadata skips that item and logs it; the listing neither
   aborts nor ends the process, and every other item is returned. *)
C2_FailureSkipsOneEntry ==
    (Returned /\ DirListing) =>
        /\ outcome.status = "Ok"
        /\ \A i \in 1..Len(fs.dir) :
              (FullyRead(i) /\ Shown(i)) => InList(i)
        /\ \A i \in 1..Len(fs.dir) :
              (fs.dir[i].read /\ ~FullyRead(i)) => ~InList(i)

\* The parenthesis of C2: an item that is skipped is logged.
C2_SkippedEntryIsLogged ==
    (Listed /\ DirListing) =>
        ((\E i \in 1..Len(fs.dir) : ~FullyRead(i) /\ (fs.dir[i].read => Shown(i)))
            => outcome.stderr > 0)

(* C3: with sort-by-size set and sort-by-modified-time unset, entries of the
   same kind come largest first, and smallest first when reverse is set. *)
C3_SizeOrder ==
    (Listed /\ flags.sort_by_size /\ ~flags.sort_by_modified_time) =>
        \A p \in SameKindPairs :
            IF flags.reverse_sort
            THEN Entries[p[1]].metadata.len <= Entries[p[2]].metadata.len
            ELSE Entries[p[1]].metadata.len >= Entries[p[2]].metadata.len

\* Two files enumerated smallest first were sorted by size, largest first.
C3_Witness ==
    /\ Listed /\ DirListing
    /\ flags.sort_by_size /\ ~flags.sort_by_modified_time /\ ~flags.reverse_sort
    /\ Len(fs.dir) = 2 /\ Len(Entries) = 2
    /\ fs.dir[1].ftype = "File" /\ fs.dir[2].ftype = "File"
    /\ fs.dir[1].metadata[1].len < fs.dir[2].metadata[1].len
    /\ Entries[1].name = fs.dir[2].name

(* C4: with sort-by-modified-time set and sort-by-size unset, of two entries
   of the same kind the one modified strictly later comes first, and the
   older one comes first when reverse is set. *)
C4_RecencyOrder ==
    (Listed /\ flags.sort_by_modified_time /\ ~flags.sort_by_size) =>
        \A p \in SameKindPairs :
            IF flags.reverse_sort
            THEN Entries[p[1]].metadata.mtime <= Entries[p[2]].metadata.mtime
            ELSE Entries[p[1]].metadata.mtime >= Entries[p[2]].metadata.mtime

\* What the code does keep: the order holds between entries of which at most
\* one was modified after the clock reading.
C4_RecencyOrderUpToNow ==
    (Listed /\ flags.sort_by_modified_time /\ ~flags.sort_by_size) =>
        \A p \in SameKindPairs :
            (Entries[p[1]].metadata.mtime <= Now \/ Entries[p[2]].metadata.mtime <= Now) =>
                IF flags.reverse_sort
                THEN Entries[p[1]].metadata.mtime <= Entries[p[2]].metadata.mtime
                ELSE Entries[p[1]].metadata.mtime >= Entries[p[2]].metadata.mtime

(* C5: with neither sort flag set, get_entries returns the same entries in
   the same order whether reverse is set or not. *)
C5_ReverseAloneChangesNothing ==
    (Returned /\ ~flags.sort_by_size /\ ~flags.sort_by_modified_time) =>
        get_entries(fs, [flags EXCEPT !.reverse_sort = ~flags.reverse_sort]) = {outcome}

\* A listing of two entries with reverse set and no sort flag.
C5_Witness ==
    /\ Listed /\ DirListing
    /\ flags.reverse_sort /\ ~flags.sort_by_size /\ ~flags.sort_by_modified_time
    /\ Len(Entries) = 2
    /\ Entries[1].type = "File" /\ Entries[2].type = "Dir"

(* C6: an item of the enumeration is in the returned list iff show-hidden is
   set or the first byte of its name is not '.'. *)
C6_HiddenFilter ==
    (Returned /\ DirListing) =>
        \A i \in 1..Len(fs.dir) : fs.dir[i].read => (InList(i) <=> Shown(i))

(* C6 as amended: when get_entries returns a list, an item that was read with
   its file type is in the list iff show-hidden is set or the first byte of
   its name is not '.'; an item whose file type is not read is left out. *)
C6_HiddenFilterOfReadEntries ==
    (Listed /\ DirListing) =>
        \A i \in 1..Len(fs.dir) :
            fs.dir[i].read => (InList(i) <=> (TypeRead(i) /\ Shown(i)))

\* A hidden item was left out and a plain one kept, show-hidden unset.
C6_Witness ==
    /\ Listed /\ DirListing /\ ~flags.show_hidden
    /\ Len(fs.dir) = 2 /\ TypeRead(1) /\ TypeRead(2)
    /\ fs.dir[1].name[1] = "." /\ fs.dir[2].name[1] # "."
    /\ ~InList(1) /\ InList(2)

(* C7: get_entries on a path that does not exist returns Ok with an empty
   list, whatever the flags; no error, no exit. *)
C7_MissingPathIsEmpty ==
    (Returned /\ fs.path_given /\ ~fs.exists) => outcome = Ok(<<>>)

\* A missing path was listed with a sort flag and show-hidden set.
C7_Witness ==
    /\ Listed /\ fs.path_given /\ ~fs.exists
    /\ flags.sort_by_size /\ flags.show_hidden /\ flags.reverse_sort

(* C8: get_entries on a path that exists and is not a directory returns
   exactly one entry, a File named by the path's file name, whatever the
   flags. *)
C8_SingleFile ==
    (Returned /\ fs.path_given /\ fs.exists /\ ~fs.is_dir) =>
        /\ outcome.status = "Ok"
        /\ Len(Entries) = 1
        /\ Entries[1].type = "File"
        /\ Entries[1].name = fs.file_name

(* C8 as amended: ... returns exactly that one entry when the path's metadata
   is read; when it is not, get_entries logs an error and ends the process. *)
C8_SingleFileOrExit ==
    (Returned /\ fs.path_given /\ fs.exists /\ ~fs.is_dir) =>
        IF fs.path_meta # NoMeta
        THEN /\ outcome.status = "Ok"
             /\ Len(Entries) = 1
             /\ Entries[1].type = "File"
             /\ Entries[1].name = fs.file_name
             /\ Entries[1].metadata = fs.path_meta[1]
        ELSE outcome = Exit1

\* A hidden file was listed by its path, show-hidden unset and a sort flag set.
C8_Witness ==
    /\ Listed /\ fs.path_given /\ fs.exists /\ ~fs.is_dir
    /\ fs.file_name[1] = "." /\ ~flags.show_hidden /\ flags.sort_by_size
    /\ Len(Entries) = 1

----------------------------------------------------------------------------
(* bytes_to_human on its own *)

\* The base-1024 digits the byte counts are made of.
DigitSamples == {0, 1, 256, 500, 512, 1023}

\* Byte counts over the whole u64 range: the first six digits from
\* DigitSamples, the seventh 0 or 15.
ByteCounts ==
    {[i \in 1..LimbCount |-> IF i = LimbCount THEN hi[1] ELSE lo[i]] :
        lo \in [1..(LimbCount - 1) -> DigitSamples], hi \in {<<0>>, <<15>>}}

InitHuman ==
    /\ fs = Target(FALSE, FALSE, FALSE, <<>>, NoMeta, FALSE, <<>>)
    /\ flags = Flags(FALSE, FALSE, FALSE, FALSE, FALSE, FALSE, FALSE, FALSE)
    /\ pc = "start"
    /\ outcome = Ok(<<>>)
    /\ index = 0
    /\ stdout = <<>>
    /\ bytes \in ByteCounts
    /\ human = NotCalled
    /\ mode = 0
    /\ permissions = <<>>

\* display.rs: bytes_to_human(bytes)
CallDisplay ==
    /\ human.fn = "none"
    /\ human' = [fn |-> "display", result |-> Returns(bytes_to_human(bytes))]
    /\ UNCHANGED <<fs, flags, pc, outcome, index, stdout, bytes, mode, permissions>>

\* entry.rs: bytes_to_human(bytes)
CallEntry ==
    /\ human.fn = "none"
    /\ human' = [fn |-> "entry", result |-> bytes_to_human_entry(bytes)]
    /\ UNCHANGED <<fs, flags, pc, outcome, index, stdout, bytes, mode, permissions>>

NextHuman == CallDisplay \/ CallEntry

SpecHuman == InitHuman /\ [][NextHuman]_vars

(* C9: in stream mode the output for the entries e1..en is their bare names
   joined by ", ": the separator before every entry but the first, no
   trailing separator, no newline, and no other flag changes it. *)
RECURSIVE JoinNames(_)
JoinNames(entries) ==
    IF entries = <<>> THEN <<>>
    ELSE IF Len(entries) = 1 THEN entries[1].name
    ELSE entries[1].name \o <<",", " ">> \o JoinNames(Tail(entries))

C9_StreamOutput ==
    (pc \in {"listed", "printed"} /\ flags.stream_output) =>
        /\ stdout = JoinNames(SubSeq(Entries, 1, index))
        /\ pc = "printed" => index = Len(Entries)

\* The entries a (a directory), b and c were printed in stream mode with the
\* long-listing, size, human and colour settings on: the output is "a, b, c".
C9_Witness ==
    /\ pc = "printed" /\ flags.stream_output
    /\ flags.long_listing /\ flags.show_size /\ flags.human /\ fs.colorize
    /\ Len(Entries) = 3
    /\ Entries[1].type = "Dir" /\ Entries[2].metadata.len # 0
    /\ stdout = <<"a", ",", " ", "b", ",", " ", "c">>

(* C10: bytes_to_human returns exactly "0B" for 0, "500B" for 500, "1.0K" for
   1024 and "1.5K" for 1536, with no padding around them; in general the
   unit is the one of the integer base-1024 logarithm of the byte count,
   clamped to T, the B unit is printed without decimals and every higher
   unit with exactly one decimal place. *)
IsDigits(text) ==
    Len(text) > 0 /\ \A i \in 1..Len(text) : \E d \in 1..10 : text[i] = DecimalDigits[d]

HumanTextAsClaimed(l, text) ==
    /\ l = U64(0) => text = <<"0", "B">>
    /\ l = U64(500) => text = <<"5", "0", "0", "B">>
    /\ l = U64(1024) => text = <<"1", ".", "0", "K">>
    /\ l = U64(1536) => text = <<"1", ".", "5", "K">>
    /\ Len(text) >= 2
    /\ l # U64(0) =>
         LET unit == Min(TopLimb(l) - 1, 4)
             n == Len(text)
         IN  /\ text[n] = <<"B", "K", "M", "G", "T">>[unit + 1]
             /\ IF unit = 0
                THEN IsDigits(SubSeq(text, 1, n - 1))
                ELSE /\ n >= 4
                     /\ IsDigits(SubSeq(text, 1, n - 3))
                     /\ text[n - 2] = "."
                     /\ IsDigits(<<text[n - 1]>>)

C10_HumanText ==
    (human.fn # "none" /\ ~human.result.panic) =>
        HumanTextAsClaimed(bytes, human.result.text)

\* What the code does keep: bytes_to_human of display.rs is as claimed.
C10_HumanTextOfDisplay ==
    human.fn = "display" =>
        /\ ~human.result.panic
        /\ HumanTextAsClaimed(bytes, human.result.text)

----------------------------------------------------------------------------
(* parse_permissions on its own *)

\* Every st_mode of ModeBits bits.
Modes == 0..(2^ModeBits - 1)

InitPermissions ==
    /\ fs = Target(FALSE, FALSE, FALSE, <<>>, NoMeta, FALSE, <<>>)
    /\ flags = Flags(FALSE, FALSE, FALSE, FALSE, FALSE, FALSE, FALSE, FALSE)
    /\ pc = "start"
    /\ outcome = Ok(<<>>)
    /\ index = 0
    /\ stdout = <<>>
    /\ bytes = U64(0)
    /\ human = NotCalled
    /\ mode \in Modes
    /\ permissions = <<>>

\* Entry::get_permissions: parse_permissions(self.metadata.permissions().mode())
GetPermissions ==
    /\ permissions = <<>>
    /\ permissions' = <<parse_permissions(mode)>>
    /\ UNCHANGED <<fs, flags, pc, outcome, index, stdout, bytes, human, mode>>

NextPermissions == GetPermissions

SpecPermissions == InitPermissions /\ [][NextPermissions]_vars

\* Bit number k of a mode, counted from 0 at the low end.
BitSet(m, k) == (m \div (2^k)) % 2 = 1

\* The character of one position of a triplet.
Flag(set, letter) == IF set THEN letter ELSE "-"

(* C11: for every mode, parse_permissions returns exactly 9 characters, the
   triplets of user, group and other in that order; in each triplet the first
   is 'r' iff the read bit is set, the second 'w' iff the write bit is set,
   the third 'x' iff the execute bit is set, '-' otherwise; read+write for
   the owner, read for the group and nothing for other gives "rw-r-----". *)
C11_PermissionString ==
    permissions # <<>> =>
        LET text == permissions[1]
        IN  /\ Len(text) = 9
            /\ \A who \in 0..2 :
                  /\ text[3 * who + 1] = Flag(BitSet(mode, 8 - 3 * who), "r")
                  /\ text[3 * who + 2] = Flag(BitSet(mode, 7 - 3 * who), "w")
                  /\ text[3 * who + 3] = Flag(BitSet(mode, 6 - 3 * who), "x")
            /\ (mode % 512 = 416) =>
                  text = <<"r", "w", "-", "r", "-", "-", "-", "-", "-">>

\* The mode 0100640 of a regular file was rendered as "rw-r-----".
C11_Witness ==
    /\ mode = 33184
    /\ permissions = << <<"r", "w", "-", "r", "-", "-", "-", "-", "-">> >>

\* The place in the enumeration of the item that a returned entry came from.
PositionOf(entry) ==
    CHOOSE i \in 1..Len(fs.dir) : fs.dir[i].read /\ fs.dir[i].name = entry.name

(* C12: the sort is stable: with a sort flag set, two entries whose composite
   keys (kind, size key, recency key) compare equal come in the result in the
   order they had in the directory enumeration. *)
C12_StableSort ==
    (Listed /\ DirListing /\ (flags.sort_by_size \/ flags.sort_by_modified_time)) =>
        \A i, j \in 1..Len(Entries) :
            (i < j /\ Compare(Entries[i], Entries[j], flags) = 0) =>
                PositionOf(Entries[i]) < PositionOf(Entries[j])

\* What the code does keep: the result holds the entries collected, each
\* once, and the comparator finds it in order.
C12_SortedPermutation ==
    (Listed /\ DirListing /\ (flags.sort_by_size \/ flags.sort_by_modified_time)) =>
        /\ Len(Entries) = Len(Collect(fs.dir, flags))
        /\ \A k \in 1..Len(Collect(fs.dir, flags)) :
              \E i \in 1..Len(Entries) : Entries[i] = Collect(fs.dir, flags)[k]
        /\ \A i, j \in 1..Len(Entries) :
              i < j => Compare(Entries[i], Entries[j], flags) <= 0

\* The long-listing columns as claimed: every field, the link count and the
\* size padded to their widths, followed by one space.
ClaimedColumns(entry, fl, sizes) ==
    get_permissions(entry) \o <<" ">>
    \o pad_str(get_links(entry), sizes.sym_len) \o <<" ">>
    \o get_owners(entry) \o <<" ">>
    \o pad_str(SizeText(entry, fl), sizes.file_len) \o <<" ">>
    \o get_modified_time(entry) \o <<" ">>

\* What print_entry writes after the columns: the name as the short listing
\* writes it, without the size.
NamePart(entry, fl, colorize) ==
    print_entry(entry, [fl EXCEPT !.long_listing = FALSE, !.show_size = FALSE],
                [file_len |-> 0, sym_len |-> 0], colorize)

\* The first n lines of a long listing with the columns as claimed.
RECURSIVE ClaimedLines(_, _, _, _)
ClaimedLines(entries, n, fl, colorize) ==
    IF n = 0 THEN <<>>
    ELSE ClaimedLines(entries, n - 1, fl, colorize)
         \o ClaimedColumns(entries[n], fl, calculate_format_sizes(entries, fl))
         \o NamePart(entries[n], fl, colorize)
         \o <<"\n">>

LongListing ==
    pc \in {"listed", "printed"} /\ flags.long_listing /\ ~flags.stream_output

(* C13: in long-listing mode, stream mode off, each of the permission string,
   the link count, the owner and group, the size and the modified time is
   followed by exactly one space before the next field, with the human flag
   set and with it unset, and the size is padded to the computed width. *)
C13_OneSpaceAfterEachField ==
    LongListing =>
        stdout = ClaimedLines(Entries, index, flags, fs.colorize)

\* What the code does keep: the columns are as claimed when the human flag
\* is set.
C13_OneSpaceAfterEachFieldHuman ==
    (LongListing /\ flags.human) =>
        stdout = ClaimedLines(Entries, index, flags, fs.colorize)

\* What the code writes with the human flag unset: a second space after the
\* size.
C13_TwoSpacesAfterRawSize ==
    (LongListing /\ ~flags.human /\ index = 1) =>
        LET sizes == calculate_format_sizes(Entries, flags)
            size == pad_str(to_string(Entries[1].metadata.len), sizes.file_len)
            before == 9 + 1 + sizes.sym_len + 1 + Len(get_owners(Entries[1])) + 1
        IN  SubSeq(stdout, before + 1, before + Len(size) + 2) = size \o <<" ", " ">>

(* C14: for every byte count of 64 bits, bytes_to_human of entry.rs completes
   and returns a string: `6 - src.len()` of pad_str never underflows, every
   unpadded text having at most 6 characters. *)
C14_EntryHumanReturns ==
    human.fn = "entry" => ~human.result.panic

\* What the code does keep: bytes_to_human of entry.rs returns, its text
\* padded to 6 characters, exactly when the unpadded text has at most 6; it
\* panics on every longer one.
C14_PanicsPastSixCharacters ==
    human.fn = "entry" =>
        IF Len(bytes_to_human(bytes)) <= 6
        THEN /\ ~human.result.panic
             /\ Len(human.result.text) = 6
        ELSE human.result.panic

====
